---- MODULE Spec2Model ----
(***************************************************************************)
(* A model of the gadget simulation of gadget-up-2: the sparse grid        *)
(* (src/src/grid.rs), gadget definitions, placed gadgets and the agent's   *)
(* step (src/src/gadget.rs).                                               *)
(*                                                                         *)
(* Representation:                                                         *)
(*   Option<T>      a set with at most one element ({} is None)            *)
(*   FnvHashMap     a function; its DOMAIN is the key set                  *)
(*   XY, WH         pairs <<x, y>>, <<w, h>>                               *)
(*   Vec<T>         a sequence; Rust index i is TLA+ index i + 1           *)
(***************************************************************************)
EXTENDS Integers, Sequences, FiniteSets, TLC

VARIABLES
    grid,      \* the Grid<T>: [items, grid, next_idx]
    agent,     \* the Agent: [double_xy, direction]
    panicked,  \* TRUE once an operation has panicked
    gadget_tile, \* the Option<Gadget> being edited before it is placed: [def, size, port_map, state]
    gadget_def, \* the GadgetDef under construction and query: [num_ports, num_states, traversals]
    app,       \* the App's editing state: [mode, undo_stack_index, undo_stacks, gadget_selection, selection, agent]
    last       \* the last operation and its arguments (history, read by the properties only)

vars == <<grid, agent, panicked, gadget_tile, gadget_def, app, last>>

---------------------------------------------------------------------------
(* Bounds of the model *)

\* origins of inserted items have coordinates in CoordRange
CoordRange == 0 .. 1
\* widths and heights of inserted items are in SizeRange
SizeRange == 1 .. 2
\* at most MaxInserts calls of Grid::insert in one run of the grid model
MaxInserts == 3

Payloads == {"a", "b"}

\* a (state, port) of the agent model has at most MaxTargets destinations
MaxTargets == 3
\* the states and ports of the gadget definitions of the agent model
StateIds == 0 .. 1
PortIds == 0 .. 3
\* the footprints of the gadgets of the agent model
GadgetSizes == {<<1, 1>>, <<2, 1>>, <<1, 2>>}

---------------------------------------------------------------------------
(* Option and map helpers *)

None == {}
Some(v) == {v}
Unwrap(o) == CHOOSE v \in o : TRUE

EmptyMap == [k \in {} |-> 0]
MapInsert(m, k, v) == [j \in DOMAIN m \cup {k} |-> IF j = k THEN v ELSE m[j]]
MapRemove(m, k) == [j \in DOMAIN m \ {k} |-> m[j]]

---------------------------------------------------------------------------
(* Grid<T>, src/src/grid.rs *)

\* Grid::new
GridNew == [items |-> EmptyMap, grid |-> EmptyMap, next_idx |-> 0]

\* the cells  for y in y..(y + h) { for x in x..(x + w) { .. } }  visits, in order
FootprintSeq(xy, wh) ==
    [i \in 1 .. (wh[1] * wh[2]) |->
        <<xy[1] + ((i - 1) % wh[1]), xy[2] + ((i - 1) \div wh[1])>>]

Footprint(xy, wh) ==
    {<<x, y>> : x \in xy[1] .. (xy[1] + wh[1] - 1), y \in xy[2] .. (xy[2] + wh[2] - 1)}

\* Grid::get panics when the cell maps to an id that is not in items (Index)
GridGetPanics(g, position) ==
    position \in DOMAIN g.grid /\ g.grid[position] \notin DOMAIN g.items

\* Grid::get: the record [t, xy, wh] whose id the cell maps to (None too where it panics)
GridGet(g, position) ==
    IF position \in DOMAIN g.grid /\ ~GridGetPanics(g, position)
    THEN Some(g.items[g.grid[position]])
    ELSE None

\* Grid::remove panics when the cell maps to an id that is not in items (unwrap)
GridRemovePanics(g, position) ==
    position \in DOMAIN g.grid /\ g.grid[position] \notin DOMAIN g.items

\* Grid::remove frees only the cell given (a plausible slip)
GridRemoveCellOnly(g, position) ==
    IF position \in DOMAIN g.grid /\ ~GridRemovePanics(g, position)
    THEN [g EXCEPT !.items = MapRemove(g.items, g.grid[position]),
                   !.grid = MapRemove(g.grid, position)]
    ELSE g

\* Grid::remove deletes the record and leaves its cells mapped (a plausible slip)
GridRemoveItemOnly(g, position) ==
    IF position \in DOMAIN g.grid /\ ~GridRemovePanics(g, position)
    THEN [g EXCEPT !.items = MapRemove(g.items, g.grid[position])]
    ELSE g

\* Grid::remove looks the item up by its origin only (a plausible slip)
GridRemoveByOrigin(g, position) ==
    IF /\ position \in DOMAIN g.grid
       /\ ~GridRemovePanics(g, position)
       /\ g.items[g.grid[position]].xy = position
    THEN [g EXCEPT !.items = MapRemove(g.items, g.grid[position]),
                   !.grid = [c \in DOMAIN g.grid \
                                {d \in DOMAIN g.grid : g.grid[d] = g.grid[position]}
                             |-> g.grid[c]]]
    ELSE g

\* Grid::remove
GridRemove(g, position) ==
    IF position \in DOMAIN g.grid /\ ~GridRemovePanics(g, position)
    THEN LET idx == g.grid[position]
             rec == g.items[idx]
             RECURSIVE Free(_, _)
             Free(m, i) ==
                 IF i > Len(FootprintSeq(rec.xy, rec.wh)) THEN m
                 ELSE Free(MapRemove(m, FootprintSeq(rec.xy, rec.wh)[i]), i + 1)
         IN  [g EXCEPT !.items = MapRemove(g.items, idx),
                       !.grid = Free(g.grid, 1)]
    ELSE g

\* the first loop of Grid::insert: remove whatever occupies each cell of the footprint
RECURSIVE RemoveEach(_, _, _)
RemoveEach(g, cells, i) ==
    IF i > Len(cells) THEN g
    ELSE RemoveEach(GridRemove(g, cells[i]), cells, i + 1)

\* Grid::insert registers the new footprint without evicting (a plausible slip)
GridInsertNoEvict(g, t, position, size) ==
    LET idx == g.next_idx
    IN  [items |-> MapInsert(g.items, idx, [t |-> t, xy |-> position, wh |-> size]),
         grid |-> [c \in DOMAIN g.grid \cup Footprint(position, size) |->
                      IF c \in Footprint(position, size) THEN idx ELSE g.grid[c]],
         next_idx |-> g.next_idx + 1]

\* Grid::insert writes the new id to the origin cell only (a plausible slip)
GridInsertOriginOnly(g, t, position, size) ==
    LET cleared == RemoveEach(g, FootprintSeq(position, size), 1)
        idx == cleared.next_idx
    IN  [items |-> MapInsert(cleared.items, idx, [t |-> t, xy |-> position, wh |-> size]),
         grid |-> MapInsert(cleared.grid, position, idx),
         next_idx |-> cleared.next_idx + 1]

\* Grid::insert
GridInsert(g, t, position, size) ==
    LET cells == FootprintSeq(position, size)
        cleared == RemoveEach(g, cells, 1)
        idx == cleared.next_idx
        RECURSIVE Fill(_, _)
        Fill(m, i) ==
            IF i > Len(cells) THEN m ELSE Fill(MapInsert(m, cells[i], idx), i + 1)
    IN  [items |-> MapInsert(cleared.items, idx, [t |-> t, xy |-> position, wh |-> size]),
         grid |-> Fill(cleared.grid, 1),
         next_idx |-> cleared.next_idx + 1]

---------------------------------------------------------------------------
(* Vec2i helpers of crate::math *)

Dirs == {<<0, 1>>, <<1, 0>>, <<0, -1>>, <<-1, 0>>}

\* Vector2Ex::dot_ex
DotEx(a, b) == a[1] * b[1] + a[2] * b[2]

\* Vector2Ex::right_ccw: the vector turned 90 degrees counter-clockwise
RightCcw(v) == <<-v[2], v[1]>>

Neg(v) == <<-v[1], -v[2]>>

---------------------------------------------------------------------------
(* GadgetDef, src/src/gadget.rs *)

\* num_states and num_ports are stored the other way round (a plausible slip)
GadgetDefNewSwapped(num_states, num_ports) ==
    [num_ports |-> num_states, num_states |-> num_ports, traversals |-> {}]

\* GadgetDef::new
GadgetDefNew(num_states, num_ports) ==
    [num_ports |-> num_ports, num_states |-> num_states, traversals |-> {}]

\* GadgetDef::from_traversals: the traversals are collected into a hash set
GadgetDefFromTraversals(num_states, num_ports, traversals) ==
    [num_ports |-> num_ports, num_states |-> num_states,
     traversals |-> {traversals[i] : i \in DOMAIN traversals}]

\* all the sequences that enumerate the set S, each element once
Orders(S) ==
    {f \in [1 .. Cardinality(S) -> S] : \A i, j \in 1 .. Cardinality(S) : f[i] = f[j] => i = j}

\* one enumeration of the set S
RECURSIVE SetToSeq(_)
SetToSeq(S) ==
    IF S = {} THEN <<>>
    ELSE LET x == CHOOSE y \in S : TRUE IN <<x>> \o SetToSeq(S \ {x})

\* The orders FnvHashSet::iter may visit def.traversals in. The order of a hash set
\* is not specified; only the relative order of the traversals leaving sp decides
\* what targets_from_state_port(sp) yields, so the others come last in one order.
Iterations(def, sp) ==
    {o \o SetToSeq({t \in def.traversals : t[1] # sp}) :
        o \in Orders({t \in def.traversals : t[1] = sp})}

\* GadgetDef::targets_from_state_port yields every traversal, not only those leaving sp
\* (a plausible slip)
TargetsFromStatePortNoFilter(def, sp, iter) ==
    [i \in 1 .. Len(iter) |-> iter[i][2]]

\* GadgetDef::targets_from_state_port: filter and map over traversals.iter(), which
\* visits the set in the order iter
TargetsFromStatePort(def, sp, iter) ==
    LET kept == SelectSeq(iter, LAMBDA t : t[1][1] = sp[1] /\ t[1][2] = sp[2])
    IN  [i \in 1 .. Len(kept) |-> kept[i][2]]

\* GadgetDef::port_traversals_in_state yields (destination, source) pairs
\* (a plausible slip)
PortTraversalsInStateSwapped(def, state) ==
    {<<t[2][2], t[1][2]>> : t \in {u \in def.traversals : u[1][1] = state}}

\* GadgetDef::port_traversals_in_state
PortTraversalsInState(def, state) ==
    {<<t[1][2], t[2][2]>> : t \in {u \in def.traversals : u[1][1] = state}}

---------------------------------------------------------------------------
(* Gadget, src/src/gadget.rs *)

\* Gadget::new
GadgetNew(def, size, port_map, state) ==
    [def |-> def, size |-> size, port_map |-> port_map, state |-> state]

\* Gadget::port (panics on an index outside the port map)
GadgetPortPanics(gadget, index) == index + 1 \notin DOMAIN gadget.port_map
GadgetPort(gadget, index) == gadget.port_map[index + 1]

\* Gadget::set_state
SetState(gadget, state) == [gadget EXCEPT !.state = state]

\* Gadget::port_map_inv: collecting (port, index) pairs into a map keeps, for a
\* port that several slots hold, the last index
PortMapInv(gadget) ==
    LET ports == UNION {gadget.port_map[i] : i \in DOMAIN gadget.port_map}
    IN  [p \in ports |->
            (CHOOSE i \in DOMAIN gadget.port_map :
                /\ gadget.port_map[i] = Some(p)
                /\ \A j \in DOMAIN gadget.port_map : gadget.port_map[j] = Some(p) => j <= i) - 1]

\* the offsets of right and left change places (a plausible slip)
BrflOffsetMirrored(direction) ==
    IF direction[1] = 0
    THEN (IF direction[2] > 0 THEN 0 ELSE 2)
    ELSE (IF direction[1] > 0 THEN 3 ELSE 1)

\* the offset targets_from_state_port_brfl derives from the facing
BrflOffset(direction) ==
    IF direction[1] = 0
    THEN (IF direction[2] > 0 THEN 0 ELSE 2)
    ELSE (IF direction[1] > 0 THEN 1 ELSE 3)

\* the edge of a w x h gadget that slot idx lies on: 0 bottom, 1 right, 2 top, 3 left
SlotEdge(size, idx) ==
    IF idx < size[1] + size[2]
    THEN (IF idx < size[1] THEN 0 ELSE 1)
    ELSE (IF idx < size[1] + size[2] + size[1] THEN 2 ELSE 3)

\* targets_from_state_port_brfl panics on a destination port no slot holds (map[&port])
BrflPanics(gadget, port, iter) ==
    LET targets == TargetsFromStatePort(gadget.def, <<gadget.state, port>>, iter)
    IN  \E i \in DOMAIN targets : targets[i][2] \notin DOMAIN PortMapInv(gadget)

\* Gadget::targets_from_state_port_brfl: <<back, right, front, left>>
TargetsFromStatePortBrfl(gadget, port, direction, iter) ==
    LET offset == BrflOffset(direction)
        map == PortMapInv(gadget)
        targets == TargetsFromStatePort(gadget.def, <<gadget.state, port>>, iter)
        Bucket(sp) == (SlotEdge(gadget.size, map[sp[2]]) + offset) % 4
    IN  [k \in 1 .. 4 |-> SelectSeq(targets, LAMBDA sp : Bucket(sp) = k - 1)]

\* Gadget::potential_port_positions, in half units: <<1, 0>> is vec2(0.5, 0.0)
PotentialPortPositions(size) ==
    LET w == size[1]
        h == size[2]
    IN  [i \in 1 .. w |-> <<1 + 2 * (i - 1), 0>>]
        \o [i \in 1 .. h |-> <<2 * w, 1 + 2 * (i - 1)>>]
        \o [i \in 1 .. w |-> <<1 + 2 * (w - i), 2 * h>>]
        \o [i \in 1 .. h |-> <<0, 1 + 2 * (h - i)>>]

Min(a, b) == IF a < b THEN a ELSE b

\* Gadget::port_positions panics on a mapped port >= num_ports (vec[*port as usize])
PortPositionsPanics(gadget) ==
    \E i \in 1 .. Min(Len(gadget.port_map), Len(PotentialPortPositions(gadget.size))) :
        \E p \in gadget.port_map[i] : p >= gadget.def.num_ports

\* Gadget::port_positions, in half units: entry p + 1 is the position of port p,
\* <<0, 0>> for a port no slot holds, the last slot's for a port several slots hold
PortPositions(gadget) ==
    LET pos == PotentialPortPositions(gadget.size)
        n == Min(Len(gadget.port_map), Len(pos))
        Slots(p) == {i \in 1 .. n : gadget.port_map[i] = Some(p)}
    IN  [q \in 1 .. gadget.def.num_ports |->
            IF Slots(q - 1) = {} THEN <<0, 0>>
            ELSE pos[CHOOSE i \in Slots(q - 1) : \A j \in Slots(q - 1) : j <= i]]

\* Gadget::rotate_ports panics on an empty port map (rem_euclid by zero)
RotatePortsPanics(gadget) == Len(gadget.port_map) = 0

\* the sign of num_spaces is dropped (a plausible slip)
RotatePortsAbs(gadget, num_spaces) ==
    LET len == Len(gadget.port_map)
        rem == IF len = 0 THEN 0
               ELSE (IF num_spaces < 0 THEN -num_spaces ELSE num_spaces) % len
    IN  [gadget EXCEPT !.port_map = [i \in 1 .. len |-> gadget.port_map[((i - 1 + rem) % len) + 1]]]

\* the port map is not cycled, so skip(rem).take(len) runs out early (a plausible slip)
RotatePortsNoCycle(gadget, num_spaces) ==
    LET len == Len(gadget.port_map)
        rem == IF len = 0 THEN 0 ELSE (-num_spaces) % len
    IN  [gadget EXCEPT !.port_map = [i \in 1 .. (len - rem) |-> gadget.port_map[i + rem]]]

\* the port map is shifted the other way (a plausible slip)
RotatePortsClockwise(gadget, num_spaces) ==
    LET len == Len(gadget.port_map)
        rem == IF len = 0 THEN 0 ELSE num_spaces % len
    IN  [gadget EXCEPT !.port_map = [i \in 1 .. len |-> gadget.port_map[((i - 1 + rem) % len) + 1]]]

\* Gadget::rotate_ports (the port map unchanged where it panics)
RotatePorts(gadget, num_spaces) ==
    LET len == Len(gadget.port_map)
        rem == IF len = 0 THEN 0 ELSE (-num_spaces) % len
    IN  [gadget EXCEPT !.port_map = [i \in 1 .. len |-> gadget.port_map[((i - 1 + rem) % len) + 1]]]

\* only the first and the last slot change places (a plausible slip)
FlipPortsEnds(gadget) ==
    LET len == Len(gadget.port_map)
    IN  [gadget EXCEPT !.port_map =
            [i \in 1 .. len |-> IF i = 1 THEN gadget.port_map[len]
                                ELSE IF i = len THEN gadget.port_map[1]
                                ELSE gadget.port_map[i]]]

\* Gadget::flip_ports
FlipPorts(gadget) ==
    LET len == Len(gadget.port_map)
    IN  [gadget EXCEPT !.port_map = [i \in 1 .. len |-> gadget.port_map[len + 1 - i]]]

\* Gadget::cycle_state panics on a def without states (remainder by zero)
CycleStatePanics(gadget) == gadget.def.num_states = 0

\* the state is not reduced modulo num_states (a plausible slip)
CycleStateNoWrap(gadget) ==
    IF gadget.def.num_states = 0 THEN gadget ELSE SetState(gadget, gadget.state + 1)

\* Gadget::cycle_state (the state unchanged where it panics)
CycleState(gadget) ==
    IF CycleStatePanics(gadget) THEN gadget
    ELSE SetState(gadget, (gadget.state + 1) % gadget.def.num_states)

\* one quarter turn that keeps the size (a plausible slip)
TurnNoSwap(gadget) == RotatePorts(gadget, gadget.size[2])

\* one quarter turn of the whole gadget: rotate_ports(h), then swap (w, h)
Turn(gadget) ==
    [RotatePorts(gadget, gadget.size[2]) EXCEPT !.size = <<gadget.size[2], gadget.size[1]>>]

\* Gadget::rotate: num_turns mod 4 quarter turns
RECURSIVE Turns(_, _)
Turns(gadget, n) == IF n = 0 THEN gadget ELSE Turns(Turn(gadget), n - 1)

Rotate(gadget, num_turns) == Turns(gadget, num_turns % 4)

---------------------------------------------------------------------------
(* Grid::get_item_touching_edge_mut: the cell one half-step from double_xy in     *)
(* direction, the item covering it and the perimeter slot of that item whose      *)
(* midpoint is double_xy                                                          *)

CellOf(double_xy) == <<double_xy[1] \div 2, double_xy[2] \div 2>>

GetItemTouchingEdge(g, double_xy, direction) ==
    LET cell == CellOf(<<double_xy[1] + direction[1], double_xy[2] + direction[2]>>)
        item == GridGet(g, cell)
    IN  IF item = None THEN None
        ELSE LET rec == Unwrap(item)
                 pos == PotentialPortPositions(rec.wh)
                 local == <<double_xy[1] - 2 * rec.xy[1], double_xy[2] - 2 * rec.xy[2]>>
                 slots == {i \in DOMAIN pos : pos[i] = local}
             IN  IF slots = {} THEN None
                 ELSE Some([id |-> g.grid[cell], gadget |-> rec.t, xy |-> rec.xy,
                            wh |-> rec.wh, idx |-> (CHOOSE i \in slots : TRUE) - 1])

---------------------------------------------------------------------------
(* Agent, src/src/gadget.rs *)

NoAgent == [double_xy |-> <<0, 0>>, direction |-> <<0, 0>>]

\* the value of app where no App is modelled
NoApp == [mode |-> "None"]

First(seq) == IF Len(seq) = 0 THEN None ELSE Some(seq[1])

\* Option::or_else, Option::xor
OrElse(a, b) == IF a # None THEN a ELSE b

\* or in the place of xor: the first of the two wins (a plausible slip)
XorAsOr(a, b) == IF a # None THEN a ELSE b

Xor(a, b) == IF a # None /\ b = None THEN a ELSE IF a = None /\ b # None THEN b ELSE None

\* forward takes the front bucket only (a plausible slip)
CandidateFrontOnly(direction, input, brfl) ==
    IF DotEx(input, direction) = 1 THEN First(brfl[3])
    ELSE IF RightCcw(direction) = input THEN First(brfl[4])
    ELSE IF DotEx(input, direction) = -1 THEN None
    ELSE First(brfl[2])

\* forward falls back on the back bucket before the side buckets (a plausible slip)
CandidateBackFirst(direction, input, brfl) ==
    IF DotEx(input, direction) = 1
    THEN OrElse(OrElse(First(brfl[3]), First(brfl[1])), Xor(First(brfl[4]), First(brfl[2])))
    ELSE IF RightCcw(direction) = input THEN First(brfl[4])
    ELSE IF DotEx(input, direction) = -1 THEN None
    ELSE First(brfl[2])

\* a turn falls back on the front bucket (a plausible slip)
CandidateTurnFallback(direction, input, brfl) ==
    IF DotEx(input, direction) = 1
    THEN OrElse(OrElse(First(brfl[3]), Xor(First(brfl[4]), First(brfl[2]))), First(brfl[1]))
    ELSE IF RightCcw(direction) = input THEN OrElse(First(brfl[4]), First(brfl[3]))
    ELSE IF DotEx(input, direction) = -1 THEN None
    ELSE OrElse(First(brfl[2]), First(brfl[3]))

\* the candidate Agent::advance picks among the buckets
Candidate(direction, input, brfl) ==
    LET back == brfl[1]
        right == brfl[2]
        front == brfl[3]
        left == brfl[4]
    IN  IF DotEx(input, direction) = 1
        THEN OrElse(OrElse(First(front), Xor(First(left), First(right))), First(back))
        ELSE IF RightCcw(direction) = input THEN First(left)
        ELSE IF DotEx(input, direction) = -1 THEN None
        ELSE First(right)

\* the facing points into the gadget (a plausible slip)
ExitDirectionInward(pos2) ==
    IF pos2[1] % 2 # 0
    THEN (IF pos2[2] = 0 THEN <<0, 1>> ELSE <<0, -1>>)
    ELSE (IF pos2[1] = 0 THEN <<1, 0>> ELSE <<-1, 0>>)

\* the facing Agent::advance derives from the local doubled exit position
ExitDirection(pos2) ==
    IF pos2[1] % 2 # 0
    THEN (IF pos2[2] = 0 THEN <<0, -1>> ELSE <<0, 1>>)
    ELSE (IF pos2[1] = 0 THEN <<-1, 0>> ELSE <<1, 0>>)

\* every item of g takes the state of gadget (a plausible slip)
GridSetGadgetEvery(g, idx, gadget) ==
    [g EXCEPT !.items = [i \in DOMAIN g.items |-> [g.items[i] EXCEPT !.t.state = gadget.state]]]

\* the item of g with id idx holds gadget
GridSetGadget(g, idx, gadget) == [g EXCEPT !.items[idx].t = gadget]

\* the turn in place also steps the agent forward (a plausible slip)
TurnAroundAndStep(a) ==
    [double_xy |-> <<a.double_xy[1] - a.direction[1], a.double_xy[2] - a.direction[2]>>,
     direction |-> Neg(a.direction)]

\* Agent::advance, input opposite to the facing: turn around, that's it
TurnAround(a) == [a EXCEPT !.direction = Neg(a.direction)]

\* the move sets the agent's facing and position and leaves the gadget's state
\* (a plausible slip)
TraverseNoState(a, g, hit, sp) ==
    LET pos2 == PortPositions(hit.gadget)[sp[2] + 1]
    IN  [agent |-> [double_xy |-> <<hit.xy[1] * 2 + pos2[1], hit.xy[2] * 2 + pos2[2]>>,
                    direction |-> ExitDirection(pos2)],
         grid |-> g,
         panic |-> FALSE]

\* the origin of the gadget is not doubled (a plausible slip)
TraverseOriginUndoubled(a, g, hit, sp) ==
    LET pos2 == PortPositions(hit.gadget)[sp[2] + 1]
    IN  [agent |-> [double_xy |-> <<hit.xy[1] + pos2[1], hit.xy[2] + pos2[2]>>,
                    direction |-> ExitDirection(pos2)],
         grid |-> GridSetGadget(g, hit.id, SetState(hit.gadget, sp[1])),
         panic |-> FALSE]

\* Agent::advance, a candidate sp = (s1, p1) was found in the item hit
Traverse(a, g, hit, sp) ==
    LET pos2 == PortPositions(hit.gadget)[sp[2] + 1]
    IN  [agent |-> [double_xy |-> <<hit.xy[1] * 2 + pos2[1], hit.xy[2] * 2 + pos2[2]>>,
                    direction |-> ExitDirection(pos2)],
         grid |-> GridSetGadget(g, hit.id, SetState(hit.gadget, sp[1])),
         panic |-> FALSE]

\* Agent::advance; iter is the order the traversal set of the touched gadget's
\* def is visited in. The result is the agent, the grid and whether it panicked.
AgentAdvance(a, g, input, iter) ==
    LET same == [agent |-> a, grid |-> g, panic |-> FALSE]
        hit == GetItemTouchingEdge(g, a.double_xy, a.direction)
    IN  IF DotEx(input, a.direction) = -1
        THEN [same EXCEPT !.agent = TurnAround(a)]
        ELSE IF hit = None THEN same
        ELSE LET h == Unwrap(hit)
                 gadget == h.gadget
             IN  IF GadgetPortPanics(gadget, h.idx) THEN [same EXCEPT !.panic = TRUE]
                 ELSE IF GadgetPort(gadget, h.idx) = None THEN same
                 ELSE LET port == Unwrap(GadgetPort(gadget, h.idx))
                      IN  IF BrflPanics(gadget, port, iter) THEN [same EXCEPT !.panic = TRUE]
                          ELSE LET brfl == TargetsFromStatePortBrfl(gadget, port, a.direction, iter)
                                   sp == Candidate(a.direction, input, brfl)
                               IN  IF sp = None THEN same
                                   ELSE IF \/ PortPositionsPanics(gadget)
                                           \/ Unwrap(sp)[2] >= gadget.def.num_ports
                                        THEN [same EXCEPT !.panic = TRUE]
                                        ELSE Traverse(a, g, h, Unwrap(sp))

---------------------------------------------------------------------------
(* The grid model: any sequence of Grid::insert and Grid::remove calls *)

Origins == CoordRange \X CoordRange
Sizes == SizeRange \X SizeRange
\* every cell an item of the model can cover
Cells == UNION {Footprint(xy, wh) : xy \in Origins, wh \in Sizes}

\* the records (without ids) of g
Records(g) == {g.items[i] : i \in DOMAIN g.items}

\* the footprints <<xy, wh>> of the records of g that h no longer holds
Gone(g, h) == {<<g.items[i].xy, g.items[i].wh>> : i \in DOMAIN g.items \ DOMAIN h.items}

InitGrid ==
    /\ grid = GridNew
    /\ agent = NoAgent
    /\ panicked = FALSE
    /\ app = NoApp
    /\ gadget_tile = None
    /\ gadget_def = GadgetDefNew(0, 0)
    /\ last = [op |-> "new", t |-> "", xy |-> <<0, 0>>, wh |-> <<0, 0>>, gone |-> {}]

Insert(t, position, size) ==
    /\ grid.next_idx < MaxInserts
    /\ grid' = GridInsert(grid, t, position, size)
    /\ last' = [op |-> "insert", t |-> t, xy |-> position, wh |-> size,
                 gone |-> Gone(grid, grid')]
    /\ UNCHANGED <<app, agent, panicked, gadget_tile, gadget_def>>

Remove(position) ==
    /\ grid' = GridRemove(grid, position)
    /\ panicked' = (panicked \/ GridRemovePanics(grid, position))
    /\ last' = [op |-> "remove", t |-> "", xy |-> position, wh |-> <<0, 0>>,
                 gone |-> Gone(grid, grid')]
    /\ UNCHANGED <<app, agent, gadget_tile, gadget_def>>

NextGrid ==
    \/ \E t \in Payloads, position \in Origins, size \in Sizes : Insert(t, position, size)
    \/ \E position \in Cells : Remove(position)

SpecGrid == InitGrid /\ [][NextGrid]_vars

---------------------------------------------------------------------------
(* The query model: grids of up to two items, and any Grid::get_in_bounds call *)

\* the ids the items of the query model get
QueryIds == 0 .. 1
\* the values of min_x, max_x, min_y and max_y (f64 in the source; the conversions
\* of the i32 origin and the u32 size to f64 are exact)
QueryRange == 0 .. 2

\* the filter of Grid::get_in_bounds with strict comparisons (a plausible slip)
GridGetInBoundsStrict(g, min_x, max_x, min_y, max_y, iter) ==
    LET Inside(i) ==
            LET x == g.items[i].xy[1]
                y == g.items[i].xy[2]
                w == g.items[i].wh[1]
                h == g.items[i].wh[2]
            IN  x + w > min_x /\ x < max_x /\ y + h > min_y /\ y < max_y
        kept == SelectSeq(iter, Inside)
    IN  [k \in DOMAIN kept |-> g.items[kept[k]]]

\* Grid::get_in_bounds: the records items.values() visits, in the order iter of
\* their ids, that pass the filter
GridGetInBounds(g, min_x, max_x, min_y, max_y, iter) ==
    LET Inside(i) ==
            LET x == g.items[i].xy[1]
                y == g.items[i].xy[2]
                w == g.items[i].wh[1]
                h == g.items[i].wh[2]
            IN  x + w >= min_x /\ x <= max_x /\ y + h >= min_y /\ y <= max_y
        kept == SelectSeq(iter, Inside)
    IN  [k \in DOMAIN kept |-> g.items[kept[k]]]

InitQuery ==
    /\ grid = GridNew
    /\ agent = NoAgent
    /\ panicked = FALSE
    /\ app = NoApp
    /\ gadget_tile = None
    /\ gadget_def = GadgetDefNew(0, 0)
    /\ last = [op |-> "new", bounds |-> <<0, 0, 0, 0>>, result |-> <<>>]

QueryInsert(position, size) ==
    /\ grid.next_idx \in QueryIds
    /\ grid' = GridInsert(grid, "a", position, size)
    /\ last' = [op |-> "insert", bounds |-> <<0, 0, 0, 0>>, result |-> <<>>]
    /\ UNCHANGED <<app, agent, panicked, gadget_tile, gadget_def>>

\* get_in_bounds takes &self; the hash map may visit the items in any order
GetInBounds(min_x, max_x, min_y, max_y) ==
    /\ \E iter \in Orders(DOMAIN grid.items) :
          last' = [op |-> "get_in_bounds", bounds |-> <<min_x, max_x, min_y, max_y>>,
                   result |-> GridGetInBounds(grid, min_x, max_x, min_y, max_y, iter)]
    /\ UNCHANGED <<app, grid, agent, panicked, gadget_tile, gadget_def>>

NextQuery ==
    \/ \E position \in Origins, size \in Sizes : QueryInsert(position, size)
    \/ \E min_x, max_x, min_y, max_y \in QueryRange : GetInBounds(min_x, max_x, min_y, max_y)

SpecQuery == InitQuery /\ [][NextQuery]_vars

---------------------------------------------------------------------------
(* UndoStack. Its code is not in src/; it is modelled by what ui.rs calls it for: *)
(* a list of closed batches of actions and the actions recorded since the last  *)
(* batch                                                                        *)

UndoStackNew == [batches |-> <<>>, open |-> <<>>]

RECURSIVE Flatten(_)
Flatten(batches) ==
    IF batches = <<>> THEN <<>> ELSE Head(batches) \o Flatten(Tail(batches))

\* every action the stack holds, oldest first
History(stack) == Flatten(stack.batches) \o stack.open

\* an action is recorded
UndoPush(stack, action) == [stack EXCEPT !.open = Append(@, action)]

\* batch(): the actions recorded since the last batch become one batch
UndoBatch(stack) ==
    IF stack.open = <<>> THEN stack
    ELSE [batches |-> Append(stack.batches, stack.open), open |-> <<>>]

\* clear()
UndoClear(stack) == UndoStackNew

\* main.append_as_batch(play): the whole history of play moves to main as one
\* batch (play is passed as &mut); <<main, play>> after the call
UndoAppendAsBatch(main, play) ==
    IF History(play) = <<>> THEN <<main, UndoStackNew>>
    ELSE <<[main EXCEPT !.batches = Append(@, History(play))], UndoStackNew>>

---------------------------------------------------------------------------
(* App, src/src/ui.rs *)

Modes == {"None", "TilePaint", "AgentPlace", "Play", "Select", "GadgetPaste"}

\* f64::round of half a number of quarters: halves round away from zero
RoundHalf(quarters) ==
    IF quarters >= 0 THEN (quarters + 1) \div 2 ELSE -((1 - quarters) \div 2)

\* Agent::new and Agent::set_position, the position given in quarters of a cell:
\* double_xy = round(position * 2)
AgentNew(position, direction) ==
    [double_xy |-> <<RoundHalf(position[1]), RoundHalf(position[2])>>, direction |-> direction]

AgentSetPosition(a, position) ==
    [a EXCEPT !.double_xy = <<RoundHalf(position[1]), RoundHalf(position[2])>>]

\* undo_stack_mut() finds no stack ("Tried to get undo stack while undoing/redoing")
UndoStackMutPanics(a) == a.undo_stacks[a.undo_stack_index + 1] = None

\* the stack undo_stack_mut() yields
UndoStackMut(a) ==
    IF UndoStackMutPanics(a) THEN UndoStackNew
    ELSE Unwrap(a.undo_stacks[a.undo_stack_index + 1])

\* app after the stack undo_stack_mut() yields has become stack
WithUndoStack(a, stack) ==
    IF UndoStackMutPanics(a) THEN a
    ELSE [a EXCEPT !.undo_stacks[a.undo_stack_index + 1] = Some(stack)]

\* set_mode, entering Play: the play stack is selected and cleared
EnterPlay(a, mode) ==
    IF mode = "Play"
    THEN LET selected == [a EXCEPT !.undo_stack_index = 1]
         IN  WithUndoStack(selected, UndoClear(UndoStackMut(selected)))
    ELSE a

\* one of the two stacks is missing when Play is left
LeavePlayPanics(a, from) ==
    from = "Play" /\ (a.undo_stacks[1] = None \/ a.undo_stacks[2] = None)

\* set_mode moves the play history and keeps the play stack selected (a plausible
\* slip)
LeavePlayKeepIndex(a, from) ==
    IF from # "Play" \/ LeavePlayPanics(a, from) THEN a
    ELSE LET stacks == UndoAppendAsBatch(Unwrap(a.undo_stacks[1]), Unwrap(a.undo_stacks[2]))
         IN  [a EXCEPT !.undo_stacks = <<Some(stacks[1]), Some(stacks[2])>>]

\* set_mode, leaving Play: the main stack is selected and gets the play history
LeavePlay(a, from) ==
    IF from # "Play" \/ LeavePlayPanics(a, from) THEN a
    ELSE LET stacks == UndoAppendAsBatch(Unwrap(a.undo_stacks[1]), Unwrap(a.undo_stacks[2]))
         IN  [a EXCEPT !.undo_stack_index = 0,
                       !.undo_stacks = <<Some(stacks[1]), Some(stacks[2])>>]

\* set_mode keeps the agent whatever the mode (a plausible slip)
ClearAgentNever(a, mode) == a

\* set_mode: the agent lives in AgentPlace and Play only
ClearAgent(a, mode) ==
    IF mode # "AgentPlace" /\ mode # "Play" THEN [a EXCEPT !.agent = None] ELSE a

\* App::set_mode panics
SetModePanics(a, mode) ==
    /\ mode # a.mode
    /\ \/ UndoStackMutPanics(EnterPlay(a, mode))
       \/ LeavePlayPanics(EnterPlay(a, mode), a.mode)
       \/ (a.mode = "GadgetPaste" /\ UndoStackMutPanics(LeavePlay(EnterPlay(a, mode), a.mode)))

\* App::set_mode: the app and its gadget_tile after the call
SetMode(a, tile, mode) ==
    IF mode = a.mode THEN [app |-> a, gadget_tile |-> tile]
    ELSE LET cleared == IF mode # "TilePaint" THEN [a EXCEPT !.gadget_selection = None] ELSE a
             entered == EnterPlay(cleared, mode)
             left == LeavePlay(entered, a.mode)
             agentless == ClearAgent(left, mode)
             unselected == IF mode # "Select" THEN [agentless EXCEPT !.selection = {}]
                           ELSE agentless
             batched == IF a.mode = "GadgetPaste" THEN WithUndoStack(unselected, UndoBatch(UndoStackMut(unselected)))
                        ELSE unselected
         IN  [app |-> [batched EXCEPT !.mode = mode],
              gadget_tile |-> IF mode # "TilePaint" THEN None ELSE tile]

\* the App before any edit, in the given mode
AppNew(mode) ==
    [mode |-> mode, undo_stack_index |-> 0,
     undo_stacks |-> <<Some(UndoStackNew), Some(UndoStackNew)>>,
     gadget_selection |-> None, selection |-> {}, agent |-> None]

---------------------------------------------------------------------------
(* The mode model: any sequence of App::set_mode calls, with actions recorded *)
(* on the current undo stack in between                                       *)

\* how many actions the two stacks may hold when one more is recorded
ActionCounts == 0 .. 2

InitSetMode ==
    \E mode \in Modes \ {"Play"} :
        /\ app = AppNew(mode)
        /\ grid = GridNew
        /\ agent = NoAgent
        /\ panicked = FALSE
        /\ gadget_tile = None
        /\ gadget_def = GadgetDefNew(0, 0)
        /\ last = [op |-> "new", mode |-> mode]

CallSetMode(mode) ==
    /\ ~panicked
    /\ app' = SetMode(app, gadget_tile, mode).app
    /\ gadget_tile' = SetMode(app, gadget_tile, mode).gadget_tile
    /\ panicked' = SetModePanics(app, mode)
    /\ last' = [op |-> "set_mode", mode |-> mode]
    /\ UNCHANGED <<grid, agent, gadget_def>>

\* an edit or a move records an action on the stack undo_stack_mut() yields
RecordAction(action) ==
    /\ ~panicked
    /\ ~UndoStackMutPanics(app)
    /\ Len(History(Unwrap(app.undo_stacks[1]))) + Len(History(Unwrap(app.undo_stacks[2])))
          \in ActionCounts
    /\ app' = WithUndoStack(app, UndoPush(UndoStackMut(app), action))
    /\ last' = [op |-> "record", mode |-> app.mode]
    /\ UNCHANGED <<grid, agent, panicked, gadget_tile, gadget_def>>

\* screen::Event::TilePaintFinish
TilePaintFinish ==
    /\ ~panicked
    /\ app' = WithUndoStack(app, UndoBatch(UndoStackMut(app)))
    /\ panicked' = UndoStackMutPanics(app)
    /\ last' = [op |-> "batch", mode |-> app.mode]
    /\ UNCHANGED <<grid, agent, gadget_tile, gadget_def>>

NextSetMode ==
    \/ \E mode \in Modes : CallSetMode(mode)
    \/ \E action \in Payloads : RecordAction(action)
    \/ TilePaintFinish

SpecSetMode == InitSetMode /\ [][NextSetMode]_vars

---------------------------------------------------------------------------
(* The agent model: a grid of two gadgets sharing one def, and any sequence of   *)
(* Agent::advance calls                                                          *)

\* the destinations of the traversals of the defs of the agent model: every port
\* with a change of state, and port 2 without one too
Destinations == ({1} \X PortIds) \cup {<<0, 2>>}

\* the def of test_from_traversals
TestDef ==
    GadgetDefFromTraversals(2, 2, <<<<<<0, 0>>, <<1, 1>>>>, <<<<1, 1>>, <<0, 0>>>>>>)

\* a def whose traversals lead from (0, 0) to each destination in D
StarDef(D) ==
    GadgetDefFromTraversals(Cardinality(StateIds), Cardinality(PortIds),
        SetToSeq({<<<<0, 0>>, d>> : d \in D}))

Defs ==
    {TestDef} \cup {StarDef(D) : D \in {E \in SUBSET Destinations : Cardinality(E) <= MaxTargets}}

\* ports 0, 1, .. on slots 0, 1, .. as far as there are slots
BasePortMap(def, size) ==
    [i \in 1 .. (2 * (size[1] + size[2])) |->
        IF i <= def.num_ports THEN Some(i - 1) ELSE None]

\* the gadget with port p taken off its slot
Unmap(gadget, p) ==
    [gadget EXCEPT !.port_map =
        [i \in DOMAIN gadget.port_map |->
            IF gadget.port_map[i] = Some(p) THEN None ELSE gadget.port_map[i]]]

\* the facing that points into a gadget of this size from its slot idx
InwardDir(size, idx) ==
    CASE SlotEdge(size, idx) = 0 -> <<0, 1>>
      [] SlotEdge(size, idx) = 1 -> <<-1, 0>>
      [] SlotEdge(size, idx) = 2 -> <<0, -1>>
      [] OTHER -> <<1, 0>>

\* the traversal set the next advance iterates over: that of the touched gadget
TouchedDef(a, g) ==
    LET hit == GetItemTouchingEdge(g, a.double_xy, a.direction)
    IN  IF hit = None THEN None
        ELSE IF GadgetPortPanics(Unwrap(hit).gadget, Unwrap(hit).idx) THEN None
        ELSE IF GadgetPort(Unwrap(hit).gadget, Unwrap(hit).idx) = None THEN None
        ELSE Some(Unwrap(hit).gadget)

\* the orders in which the next advance may visit that traversal set
AdvanceIterations(a, g) ==
    IF TouchedDef(a, g) = None THEN {<<>>}
    ELSE LET gadget == Unwrap(TouchedDef(a, g))
             hit == Unwrap(GetItemTouchingEdge(g, a.double_xy, a.direction))
         IN  Iterations(gadget.def, <<gadget.state, Unwrap(GadgetPort(gadget, hit.idx))>>)

NoAdvance ==
    [op |-> "new", input |-> <<0, 0>>, from |-> NoAgent, hit |-> None, sizes |-> None,
     firsts |-> None, sp |-> None, buckets |-> None, cand |-> None]

\* what the advance about to run meets: the touched item, the buckets, the candidate
AdvanceTrace(a, g, input, iter) ==
    LET hit == GetItemTouchingEdge(g, a.double_xy, a.direction)
        touched == TouchedDef(a, g)
        gadget == Unwrap(touched)
        port == Unwrap(GadgetPort(gadget, Unwrap(hit).idx))
        ok == /\ DotEx(input, a.direction) # -1
              /\ touched # None
              /\ ~BrflPanics(gadget, port, iter)
        brfl == TargetsFromStatePortBrfl(gadget, port, a.direction, iter)
    IN  [op |-> "advance", input |-> input, from |-> a,
         hit |-> IF DotEx(input, a.direction) # -1 /\ hit # None
                 THEN Some([id |-> Unwrap(hit).id, idx |-> Unwrap(hit).idx]) ELSE None,
         sizes |-> IF ok THEN Some([k \in 1 .. 4 |-> Len(brfl[k])]) ELSE None,
         firsts |-> IF ok THEN Some([k \in 1 .. 4 |-> First(brfl[k])]) ELSE None,
         sp |-> IF ok THEN Some(<<gadget.state, port>>) ELSE None,
         buckets |-> IF ok THEN Some([k \in 1 .. 4 |-> {brfl[k][i] : i \in DOMAIN brfl[k]}])
                     ELSE None,
         cand |-> IF ok THEN Candidate(a.direction, input, brfl) ELSE None]

InitAgent ==
    \E def \in Defs, size \in GadgetSizes, drop \in BOOLEAN :
    \E state \in {s \in StateIds : s < def.num_states} :
    \E r \in 0 .. (2 * (size[1] + size[2]) - 1), k \in {0, -1} :
        LET base == GadgetNew(def, size, BasePortMap(def, size), state)
            turned == RotatePorts(base, r)
            first == IF drop THEN Unmap(turned, def.num_ports - 1) ELSE turned
            second == RotatePorts(GadgetNew(def, <<1, 1>>, BasePortMap(def, <<1, 1>>), 0), -1)
            slot == (r + k) % (2 * (size[1] + size[2]))
        IN  /\ grid = GridInsert(GridInsert(GridNew, first, <<0, 0>>, size),
                                 second, <<size[1], 0>>, <<1, 1>>)
            /\ agent = [double_xy |-> PotentialPortPositions(size)[slot + 1],
                        direction |-> InwardDir(size, slot)]
            /\ panicked = FALSE
            /\ app = NoApp
            /\ gadget_tile = None
            /\ gadget_def = GadgetDefNew(0, 0)
            /\ last = NoAdvance

Advance(input) ==
    /\ ~panicked
    /\ \E iter \in AdvanceIterations(agent, grid) :
        LET res == AgentAdvance(agent, grid, input, iter)
        IN  /\ agent' = res.agent
            /\ grid' = res.grid
            /\ panicked' = res.panic
            /\ last' = AdvanceTrace(agent, grid, input, iter)
    /\ UNCHANGED <<app, gadget_tile, gadget_def>>

NextAgent == \E input \in Dirs : Advance(input)

SpecAgent == InitAgent /\ [][NextAgent]_vars

---------------------------------------------------------------------------
(* The gadget model: a def and a gadget are constructed, the gadget is edited     *)
(* with rotate_ports, flip_ports, cycle_state, set_state and rotate, then placed  *)
(* on the grid, where an agent enters it with Agent::advance                      *)

\* rotate_ports is called with num_spaces in -MaxSpaces .. MaxSpaces
MaxSpaces == 6
\* rotate is called with num_turns in TurnRange
TurnRange == -1 .. 5
\* the num_states and num_ports the constructors of the gadget model are given
StateCounts == 0 .. 2
PortCounts == 1 .. 2

\* the traversals of test_from_traversals
TestTraversals == <<<<<<0, 0>>, <<1, 1>>>>, <<<<1, 1>>, <<0, 0>>>>>>

\* the gadget with port 0 on its last slot too
Dup(gadget) == [gadget EXCEPT !.port_map[Len(gadget.port_map)] = Some(0)]

\* the gadget being edited
Tile == Unwrap(gadget_tile)

\* the record of an editing step; the constructor's arguments are carried along
Edited(op, n) ==
    [op |-> op, n |-> n, input |-> <<0, 0>>, built |-> last.built,
     num_states |-> last.num_states, num_ports |-> last.num_ports]

InitGadget ==
    \E built \in {"new", "from_traversals"}, num_states \in StateCounts, num_ports \in PortCounts :
    \E size \in GadgetSizes, dup \in BOOLEAN, state \in {s \in StateIds : s < num_states} \cup {0} :
        LET d == IF built = "new" THEN GadgetDefNew(num_states, num_ports)
                 ELSE GadgetDefFromTraversals(num_states, num_ports, TestTraversals)
            g == GadgetNew(d, size, BasePortMap(d, size), state)
        IN  /\ gadget_tile = Some(IF dup THEN Dup(g) ELSE g)
            /\ grid = GridNew
            /\ agent = NoAgent
            /\ panicked = FALSE
            /\ app = NoApp
            /\ gadget_def = GadgetDefNew(0, 0)
            /\ last = [op |-> "new", n |-> 0, input |-> <<0, 0>>, built |-> built,
                       num_states |-> num_states, num_ports |-> num_ports]

DoRotatePorts(num_spaces) ==
    /\ gadget_tile # None
    /\ ~panicked
    /\ gadget_tile' = Some(RotatePorts(Tile, num_spaces))
    /\ panicked' = RotatePortsPanics(Tile)
    /\ last' = Edited("rotate_ports", num_spaces)
    /\ UNCHANGED <<app, grid, agent, gadget_def>>

DoFlipPorts ==
    /\ gadget_tile # None
    /\ ~panicked
    /\ gadget_tile' = Some(FlipPorts(Tile))
    /\ last' = Edited("flip_ports", 0)
    /\ UNCHANGED <<app, grid, agent, panicked, gadget_def>>

DoCycleState ==
    /\ gadget_tile # None
    /\ ~panicked
    /\ gadget_tile' = Some(CycleState(Tile))
    /\ panicked' = CycleStatePanics(Tile)
    /\ last' = Edited("cycle_state", 0)
    /\ UNCHANGED <<app, grid, agent, gadget_def>>

DoSetState(state) ==
    /\ gadget_tile # None
    /\ ~panicked
    /\ gadget_tile' = Some(SetState(Tile, state))
    /\ last' = Edited("set_state", state)
    /\ UNCHANGED <<app, grid, agent, panicked, gadget_def>>

DoRotate(num_turns) ==
    /\ gadget_tile # None
    /\ ~panicked
    /\ gadget_tile' = Some(Rotate(Tile, num_turns))
    /\ panicked' = (num_turns % 4 # 0 /\ RotatePortsPanics(Tile))
    /\ last' = Edited("rotate", num_turns)
    /\ UNCHANGED <<app, grid, agent, gadget_def>>

\* the gadget is placed at (0, 0) and an agent set on one of its slots, facing in;
\* no tile is left to edit
Place(slot) ==
    /\ gadget_tile # None
    /\ ~panicked
    /\ slot < Len(PotentialPortPositions(Tile.size))
    /\ grid' = GridInsert(grid, Tile, <<0, 0>>, Tile.size)
    /\ agent' = [double_xy |-> PotentialPortPositions(Tile.size)[slot + 1],
                 direction |-> InwardDir(Tile.size, slot)]
    /\ gadget_tile' = None
    /\ last' = Edited("place", slot)
    /\ UNCHANGED <<app, panicked, gadget_def>>

AdvanceInto(input) ==
    /\ gadget_tile = None
    /\ ~panicked
    /\ \E iter \in AdvanceIterations(agent, grid) :
        LET res == AgentAdvance(agent, grid, input, iter)
        IN  /\ agent' = res.agent
            /\ grid' = res.grid
            /\ panicked' = res.panic
    /\ last' = [Edited("advance", 0) EXCEPT !.input = input]
    /\ UNCHANGED <<app, gadget_tile, gadget_def>>

NextGadget ==
    \/ \E num_spaces \in (-MaxSpaces) .. MaxSpaces : DoRotatePorts(num_spaces)
    \/ DoFlipPorts
    \/ DoCycleState
    \/ \E state \in StateIds : DoSetState(state)
    \/ \E num_turns \in TurnRange : DoRotate(num_turns)
    \/ \E slot \in 0 .. 1 : Place(slot)
    \/ \E input \in Dirs : AdvanceInto(input)

SpecGadget == InitGadget /\ [][NextGadget]_vars

---------------------------------------------------------------------------
(* The def model: a def is built by GadgetDef::from_traversals from a sequence    *)
(* of traversals and queried with targets_from_state_port and                     *)
(* port_traversals_in_state                                                       *)

\* from_traversals is given at most MaxTraversals traversals, duplicates allowed
MaxTraversals == 4
\* the traversals it is given are drawn from TraversalPool
TraversalPool ==
    {<<<<0, 0>>, <<1, 1>>>>, <<<<1, 1>>, <<0, 0>>>>, <<<<0, 0>>, <<0, 1>>>>,
     <<<<0, 1>>, <<0, 0>>>>, <<<<0, 0>>, <<1, 0>>>>, <<<<1, 0>>, <<1, 0>>>>}
\* the states and ports of the def model
DefStates == 0 .. 1
DefPorts == 0 .. 1

Queried(op, sp, state, targets, pairs) ==
    [op |-> op, supplied |-> last.supplied, sp |-> sp, state |-> state,
     targets |-> targets, pairs |-> pairs]

InitDef ==
    \E n \in 0 .. MaxTraversals : \E supplied \in [1 .. n -> TraversalPool] :
        /\ gadget_def = GadgetDefFromTraversals(Cardinality(DefStates), Cardinality(DefPorts),
                                                supplied)
        /\ grid = GridNew
        /\ agent = NoAgent
        /\ panicked = FALSE
        /\ app = NoApp
        /\ gadget_tile = None
        /\ last = [op |-> "from_traversals", supplied |-> supplied, sp |-> <<0, 0>>,
                   state |-> 0, targets |-> <<>>, pairs |-> {}]

QueryTargets(sp) ==
    /\ \E iter \in Iterations(gadget_def, sp) :
          last' = Queried("targets_from_state_port", sp, 0,
                          TargetsFromStatePort(gadget_def, sp, iter), {})
    /\ UNCHANGED <<app, grid, agent, panicked, gadget_tile, gadget_def>>

QueryPortTraversals(state) ==
    /\ last' = Queried("port_traversals_in_state", <<0, 0>>, state, <<>>,
                       PortTraversalsInState(gadget_def, state))
    /\ UNCHANGED <<app, grid, agent, panicked, gadget_tile, gadget_def>>

NextDef ==
    \/ \E sp \in DefStates \X DefPorts : QueryTargets(sp)
    \/ \E state \in DefStates : QueryPortTraversals(state)

SpecDef == InitDef /\ [][NextDef]_vars

---------------------------------------------------------------------------
(* The UI model: any sequence of the events of App::update_ui that change the *)
(* mode, the agent, the gadget selection or the selection                     *)

\* gadget_select, the gadgets the selector offers: the nope gadget, a 1x1 and a 2x1
\* gadget of TestDef, and two gadgets that differ from the nope gadget in the size
\* or in the number of states only
GadgetSelect ==
    <<GadgetNew(GadgetDefNew(1, 0), <<1, 1>>, BasePortMap(GadgetDefNew(1, 0), <<1, 1>>), 0),
      GadgetNew(TestDef, <<1, 1>>, BasePortMap(TestDef, <<1, 1>>), 0),
      GadgetNew(TestDef, <<2, 1>>, BasePortMap(TestDef, <<2, 1>>), 0),
      GadgetNew(GadgetDefNew(1, 0), <<1, 2>>, BasePortMap(GadgetDefNew(1, 0), <<1, 2>>), 0),
      GadgetNew(GadgetDefNew(2, 0), <<1, 1>>, BasePortMap(GadgetDefNew(2, 0), <<1, 1>>), 0)>>

\* the positions of AgentPlace events, in quarters of a cell
PlaceRange == 0 .. 4

SelectFuncs == {"Replace", "Add", "Subtract", "Xor"}

\* the app and gadget_tile after set_mode(mode), and whether it panicked
AfterSetMode(mode) ==
    /\ app' = SetMode(app, gadget_tile, mode).app
    /\ gadget_tile' = SetMode(app, gadget_tile, mode).gadget_tile
    /\ panicked' = SetModePanics(app, mode)

InitUi ==
    \E mode \in Modes \ {"Play"} :
        /\ app = AppNew(mode)
        /\ grid = GridInsert(GridInsert(GridNew, GadgetSelect[2], <<0, 0>>, <<1, 1>>),
                             GadgetSelect[2], <<1, 1>>, <<1, 1>>)
        /\ agent = NoAgent
        /\ panicked = FALSE
        /\ gadget_tile = None
        /\ gadget_def = GadgetDefNew(0, 0)
        /\ last = [op |-> "new", mode |-> mode]

\* the "Select gadget" button
SelectGadgetButton ==
    /\ ~panicked
    /\ AfterSetMode("TilePaint")
    /\ last' = [op |-> "select_gadget_button", mode |-> app.mode]
    /\ UNCHANGED <<grid, agent, gadget_def>>

\* the "Place agent" button
PlaceAgentButton ==
    /\ ~panicked
    /\ app' = [SetMode(app, gadget_tile, "AgentPlace").app EXCEPT
                  !.agent = Some(AgentNew(<<2, 0>>, <<0, 1>>))]
    /\ gadget_tile' = SetMode(app, gadget_tile, "AgentPlace").gadget_tile
    /\ panicked' = SetModePanics(app, "AgentPlace")
    /\ last' = [op |-> "place_agent_button", mode |-> app.mode]
    /\ UNCHANGED <<grid, agent, gadget_def>>

\* the "Select" button
SelectButton ==
    /\ ~panicked
    /\ AfterSetMode("Select")
    /\ last' = [op |-> "select_button", mode |-> app.mode]
    /\ UNCHANGED <<grid, agent, gadget_def>>

\* a click in the gadget selector, which is not shown in Play
GadgetSelector(selection) ==
    /\ ~panicked
    /\ app.mode # "Play"
    /\ app' = [SetMode(app, gadget_tile, "TilePaint").app EXCEPT
                  !.gadget_selection = Some(selection)]
    /\ gadget_tile' = Some(GadgetSelect[selection + 1])
    /\ panicked' = SetModePanics(app, "TilePaint")
    /\ last' = [op |-> "gadget_selector", mode |-> app.mode]
    /\ UNCHANGED <<grid, agent, gadget_def>>

\* screen::Event::AgentPlace(xy)
AgentPlaceEvent(xy) ==
    /\ ~panicked
    /\ LET set == IF app.agent # None THEN SetMode(app, gadget_tile, "Play")
                  ELSE [app |-> app, gadget_tile |-> gadget_tile]
       IN  /\ app' = IF set.app.agent # None
                     THEN [set.app EXCEPT !.agent = Some(AgentSetPosition(Unwrap(@), xy))]
                     ELSE set.app
           /\ gadget_tile' = set.gadget_tile
           /\ panicked' = (app.agent # None /\ SetModePanics(app, "Play"))
    /\ last' = [op |-> "agent_place", mode |-> app.mode]
    /\ UNCHANGED <<grid, agent, gadget_def>>

\* screen::Event::Select(rect, func)
SelectEvent(l, r, b, t, func) ==
    /\ ~panicked
    /\ LET found == GridGetInBounds(grid, l, r, b, t, SetToSeq(DOMAIN grid.items))
           selection == {<<found[k].xy, found[k].wh>> : k \in DOMAIN found}
       IN  app' = [app EXCEPT !.selection =
                      CASE func = "Replace" -> selection
                        [] func = "Add" -> @ \cup selection
                        [] func = "Subtract" -> @ \ selection
                        [] OTHER -> (@ \ selection) \cup (selection \ @)]
    /\ last' = [op |-> "select", mode |-> app.mode]
    /\ UNCHANGED <<grid, agent, panicked, gadget_tile, gadget_def>>

NextUi ==
    \/ SelectGadgetButton
    \/ PlaceAgentButton
    \/ SelectButton
    \/ \E selection \in 0 .. Len(GadgetSelect) - 1 : GadgetSelector(selection)
    \/ \E xy \in PlaceRange \X PlaceRange : AgentPlaceEvent(xy)
    \/ \E l, r, b, t \in QueryRange, func \in SelectFuncs : SelectEvent(l, r, b, t, func)

SpecUi == InitUi /\ [][NextUi]_vars

---------------------------------------------------------------------------
(* The paint model: a gadget is picked in the selector, or none is, and any   *)
(* sequence of TilePaint events follows                                       *)

\* the ids the painted items get
PaintIds == 0 .. 1

\* the test of the TilePaint event ignores the size (a plausible slip)
IsNopeAnySize(gadget) ==
    gadget.def.num_states = 1 /\ gadget.def.num_ports = 0

\* "Nope gadget is special": the test of the TilePaint event
IsNope(gadget) ==
    gadget.def.num_states = 1 /\ gadget.def.num_ports = 0 /\ gadget.size = <<1, 1>>

\* App::add_gadget_to_grid and App::remove_gadget_from_grid are not in src/; they are
\* modelled as the calls of Grid::insert, with the gadget's size, and Grid::remove
AddGadgetToGrid(g, gadget, xy) == GridInsert(g, gadget, xy, gadget.size)
RemoveGadgetFromGrid(g, xy) == GridRemove(g, xy)

InitPaint ==
    \E mode \in Modes \ {"Play"} :
        /\ app = AppNew(mode)
        /\ grid = GridNew
        /\ agent = NoAgent
        /\ panicked = FALSE
        /\ gadget_tile = None
        /\ gadget_def = GadgetDefNew(0, 0)
        /\ last = [op |-> "new", mode |-> mode, xy |-> <<0, 0>>, gone |-> {}]

\* screen::Event::TilePaint(xy)
TilePaintEvent(xy) ==
    /\ ~panicked
    /\ (gadget_tile # None /\ ~IsNope(Tile)) => grid.next_idx \in PaintIds
    /\ grid' = IF gadget_tile = None THEN grid
               ELSE IF IsNope(Tile) THEN RemoveGadgetFromGrid(grid, xy)
               ELSE AddGadgetToGrid(grid, Tile, xy)
    /\ panicked' = (gadget_tile # None /\ IsNope(Tile) /\ GridRemovePanics(grid, xy))
    /\ last' = [op |-> "tile_paint", mode |-> app.mode, xy |-> xy, gone |-> Gone(grid, grid')]
    /\ UNCHANGED <<app, agent, gadget_tile, gadget_def>>

NextPaint ==
    \/ \E selection \in 0 .. Len(GadgetSelect) - 1 : GadgetSelector(selection)
    \/ SelectButton
    \/ \E xy \in Cells : TilePaintEvent(xy)

SpecPaint == InitPaint /\ [][NextPaint]_vars

---------------------------------------------------------------------------
(* Properties of Agent::advance *)

\* the facing that points out of a gadget of this size at its slot idx
OutwardDir(size, idx) == Neg(InwardDir(size, idx))

\* the gadget covering a cell of g
GadgetAt(g, cell) == Unwrap(GridGet(g, cell)).t

\* the scenario of C1: the def of test_from_traversals, a 1x1 gadget at (0, 0) with
\* port 0 on slot 0 and port 1 on slot 1 in state 0, the agent at (1, 0) facing up
EndToEndScenario ==
    /\ GridGet(grid, <<0, 0>>) # None
    /\ LET rec == Unwrap(GridGet(grid, <<0, 0>>))
       IN  /\ rec.xy = <<0, 0>>
           /\ rec.wh = <<1, 1>>
           /\ rec.t.def.num_states = 2
           /\ rec.t.def.num_ports = 2
           /\ rec.t.def.traversals = {<<<<0, 0>>, <<1, 1>>>>, <<<<1, 1>>, <<0, 0>>>>}
           /\ rec.t.port_map[1] = Some(0)
           /\ rec.t.port_map[2] = Some(1)
           /\ rec.t.state = 0
    /\ agent = [double_xy |-> <<1, 0>>, direction |-> <<0, 1>>]

\* C1: in the end-to-end scenario, advance with the input equal to the facing sets
\* the gadget's state to 1, moves the agent to (2, 1) and makes it face right.
EndToEndStep ==
    [][(EndToEndScenario /\ last'.op = "advance" /\ last'.input = agent.direction) =>
          /\ agent' = [double_xy |-> <<2, 1>>, direction |-> <<1, 0>>]
          /\ GridGet(grid', <<0, 0>>) # None
          /\ GadgetAt(grid', <<0, 0>>).state = 1]_vars

\* the forward step of the scenario has just been taken
EndToEndWitness ==
    /\ last.op = "advance"
    /\ last.from = [double_xy |-> <<1, 0>>, direction |-> <<0, 1>>]
    /\ last.input = <<0, 1>>
    /\ last.hit = Some([id |-> 0, idx |-> 0])
    /\ last.cand = Some(<<1, 1>>)
    /\ GadgetAt(grid, <<0, 0>>).def.traversals = {<<<<0, 0>>, <<1, 1>>>>, <<<<1, 1>>, <<0, 0>>>>}
    /\ GadgetAt(grid, <<0, 0>>).def.num_ports = 2
    /\ GadgetAt(grid, <<0, 0>>).size = <<1, 1>>
    /\ GadgetAt(grid, <<0, 0>>).state = 1
    /\ agent = [double_xy |-> <<2, 1>>, direction |-> <<1, 0>>]

\* C2: advance with the input opposite to the facing negates the facing and leaves
\* the position and the grid unchanged; a second such turn restores the agent.
OppositeTurnNoMove ==
    [][(last'.op = "advance" /\ last'.input = Neg(agent.direction)) =>
          /\ agent'.direction = Neg(agent.direction)
          /\ agent'.double_xy = agent.double_xy
          /\ grid' = grid
          /\ ~panicked'
          /\ \A iter \in AdvanceIterations(agent', grid') :
                LET again == AgentAdvance(agent', grid', Neg(agent'.direction), iter)
                IN  again.agent = agent /\ again.grid = grid /\ ~again.panic]_vars

\* the agent has just turned around in front of a gadget it could have entered
OppositeTurnWitness ==
    /\ last.op = "advance"
    /\ last.input = Neg(last.from.direction)
    /\ agent.direction = last.input
    /\ agent.double_xy = last.from.double_xy
    /\ GetItemTouchingEdge(grid, last.from.double_xy, last.from.direction) # None

\* C3 (as claimed): advance never fails, whatever the gadget's def and slot map.
AdvanceNeverFails == ~panicked

\* C4 (as claimed): forward with an empty front bucket and non-empty left and right
\* buckets yields no candidate and changes nothing.
AmbiguousIsNoOp ==
    [][(/\ last'.op = "advance"
        /\ last'.input = agent.direction
        /\ last'.sizes # None
        /\ Unwrap(last'.sizes)[3] = 0
        /\ Unwrap(last'.sizes)[4] > 0
        /\ Unwrap(last'.sizes)[2] > 0) =>
          /\ last'.cand = None
          /\ agent' = agent
          /\ grid' = grid]_vars

\* What the code does guarantee there: forward with empty front and back buckets
\* and non-empty left and right buckets yields no candidate and changes nothing.
AmbiguousNoBackIsNoOp ==
    [][(/\ last'.op = "advance"
        /\ last'.input = agent.direction
        /\ last'.sizes # None
        /\ Unwrap(last'.sizes)[3] = 0
        /\ Unwrap(last'.sizes)[4] > 0
        /\ Unwrap(last'.sizes)[2] > 0
        /\ Unwrap(last'.sizes)[1] = 0) =>
          /\ last'.cand = None
          /\ agent' = agent
          /\ grid' = grid]_vars

\* a forward advance has just met empty front and back buckets and non-empty left
\* and right buckets
AmbiguousNoBackWitness ==
    /\ last.op = "advance"
    /\ last.input = last.from.direction
    /\ last.sizes # None
    /\ Unwrap(last.sizes)[1] = 0
    /\ Unwrap(last.sizes)[3] = 0
    /\ Unwrap(last.sizes)[4] > 0
    /\ Unwrap(last.sizes)[2] > 0
    /\ agent = last.from

\* C5: an advance whose input is not opposite to the facing either finds a candidate
\* (s1, p1) and sets the gadget's state to s1, the position to the midpoint of p1's
\* slot and the facing to that slot's outward normal, or changes none of the three.
NoPartialMutation ==
    [][(last'.op = "advance" /\ DotEx(last'.input, agent.direction) # -1) =>
          IF last'.cand # None
          THEN LET h == Unwrap(last'.hit)
                   rec == grid.items[h.id]
                   s1 == Unwrap(last'.cand)[1]
                   p1 == Unwrap(last'.cand)[2]
                   slot == PortMapInv(rec.t)[p1]
                   mid == PotentialPortPositions(rec.wh)[slot + 1]
               IN  /\ grid' = GridSetGadget(grid, h.id, SetState(rec.t, s1))
                   /\ agent'.double_xy = <<2 * rec.xy[1] + mid[1], 2 * rec.xy[2] + mid[2]>>
                   /\ agent'.direction = OutwardDir(rec.wh, slot)
          ELSE agent' = agent /\ grid' = grid]_vars

\* an advance has just moved the agent and changed the state of the gadget
NoPartialMutationWitness ==
    /\ last.op = "advance"
    /\ last.cand # None
    /\ agent.double_xy # last.from.double_xy
    /\ agent.direction # last.from.direction
    /\ grid.items[Unwrap(last.hit).id].t.state = Unwrap(last.cand)[1]
    /\ \E cell \in DOMAIN grid.grid :
          /\ grid.grid[cell] = Unwrap(last.hit).id
          /\ GadgetAt(grid, cell).def.traversals # TestDef.traversals

\* C6 (as claimed): the outcome of advance is the same for every order in which the
\* traversal set can be visited.
AdvanceDeterministic ==
    [][last'.op = "advance" =>
          \A iter \in AdvanceIterations(agent, grid) :
              LET other == AgentAdvance(agent, grid, last'.input, iter)
              IN  other.agent = agent' /\ other.grid = grid']_vars

\* C19: an advance with the input equal to the facing takes the first of front if
\* front is not empty; with front empty and exactly one of left and right not
\* empty, the first of that one, whatever back holds; with front, left and right
\* empty, the first of back, and nothing if back is empty too. The gadget it entered
\* is then in the candidate's state.
ForwardPriority ==
    (last.op = "advance" /\ last.input = last.from.direction /\ last.firsts # None) =>
        LET back == Unwrap(last.firsts)[1]
            right == Unwrap(last.firsts)[2]
            front == Unwrap(last.firsts)[3]
            left == Unwrap(last.firsts)[4]
        IN  /\ front # None => last.cand = front
            /\ (front = None /\ left # None /\ right = None) => last.cand = left
            /\ (front = None /\ left = None /\ right # None) => last.cand = right
            /\ (front = None /\ left = None /\ right = None) => last.cand = back
            /\ (last.cand # None /\ ~panicked) =>
                  grid.items[Unwrap(last.hit).id].t.state = Unwrap(last.cand)[1]

\* a forward advance has just met an empty front bucket, one side bucket empty, the
\* other not, and a back bucket that is not empty, and taken the side
ForwardPriorityWitness ==
    /\ last.op = "advance"
    /\ last.input = last.from.direction
    /\ last.firsts # None
    /\ Unwrap(last.firsts)[3] = None
    /\ Unwrap(last.firsts)[1] # None
    /\ (Unwrap(last.firsts)[2] = None) # (Unwrap(last.firsts)[4] = None)
    /\ last.cand # None
    /\ last.cand # Unwrap(last.firsts)[1]
    /\ ~panicked

\* C20: an advance whose input is the facing turned 90 degrees counter-clockwise
\* takes the first of the left bucket, one whose input is the facing turned 90
\* degrees clockwise the first of the right bucket; if that bucket is empty the
\* advance changes nothing, whatever the other buckets hold.
TurnNoFallback ==
    [][(/\ last'.op = "advance"
        /\ last'.firsts # None
        /\ last'.input \in {RightCcw(agent.direction), Neg(RightCcw(agent.direction))}) =>
          LET side == IF last'.input = RightCcw(agent.direction) THEN 4 ELSE 2
          IN  /\ last'.cand = Unwrap(last'.firsts)[side]
              /\ Unwrap(last'.firsts)[side] = None => (agent' = agent /\ grid' = grid)
              /\ (last'.cand # None /\ ~panicked') =>
                    grid'.items[Unwrap(last'.hit).id].t.state = Unwrap(last'.cand)[1]]_vars

\* a left turn has just met an empty left bucket while the front and right buckets
\* were not empty, and changed nothing
TurnNoFallbackWitness ==
    /\ last.op = "advance"
    /\ last.input = RightCcw(last.from.direction)
    /\ last.firsts # None
    /\ Unwrap(last.firsts)[4] = None
    /\ Unwrap(last.firsts)[3] # None
    /\ Unwrap(last.firsts)[2] # None
    /\ last.cand = None
    /\ agent = last.from

\* the edge a slot of a w x h footprint lies on: 0 bottom, 1 right, 2 top, 3 left
EdgeOfSlot(size, slot) ==
    CASE slot < size[1] -> 0
      [] slot >= size[1] /\ slot < size[1] + size[2] -> 1
      [] slot >= size[1] + size[2] /\ slot < 2 * size[1] + size[2] -> 2
      [] OTHER -> 3

\* up 0, right 1, down 2, left 3
OffsetOfFacing(direction) ==
    CASE direction = <<0, 1>> -> 0
      [] direction = <<1, 0>> -> 1
      [] direction = <<0, -1>> -> 2
      [] direction = <<-1, 0>> -> 3

\* the slot of the gadget that holds port p
SlotOfPort(gadget, p) == (CHOOSE i \in DOMAIN gadget.port_map : gadget.port_map[i] = Some(p)) - 1

\* C21: when an advance has computed the buckets of the touched gadget and port, and
\* every destination port is mapped, every element of bucket k is a destination
\* (s, p) with (edge(p) + offset) mod 4 = k, the buckets together hold exactly the
\* destinations of (state, port), and they hold as many elements as there are
\* destinations, so none is lost or held twice.
BucketClassification ==
    (last.op = "advance" /\ last.buckets # None) =>
        LET gadget == grid.items[Unwrap(last.hit).id].t
            buckets == Unwrap(last.buckets)
            sizes == Unwrap(last.sizes)
            dests == {t[2] : t \in {u \in gadget.def.traversals : u[1] = Unwrap(last.sp)}}
        IN  /\ Unwrap(last.sp)[2] = Unwrap(GadgetPort(gadget, Unwrap(last.hit).idx))
            /\ \A k \in 1 .. 4 : \A d \in buckets[k] :
                  k - 1 = (EdgeOfSlot(gadget.size, SlotOfPort(gadget, d[2]))
                           + OffsetOfFacing(last.from.direction)) % 4
            /\ UNION {buckets[k] : k \in 1 .. 4} = dests
            /\ \A k \in 1 .. 4 : sizes[k] = Cardinality(buckets[k])
            /\ sizes[1] + sizes[2] + sizes[3] + sizes[4] = Cardinality(dests)

\* an advance of an agent facing left or right has just sorted three destinations
\* of a gadget that is not square into at least two buckets
BucketClassificationWitness ==
    /\ last.op = "advance"
    /\ last.sizes # None
    /\ last.from.direction[1] # 0
    /\ Unwrap(last.sizes)[1] + Unwrap(last.sizes)[2] + Unwrap(last.sizes)[3]
          + Unwrap(last.sizes)[4] = 3
    /\ Cardinality({k \in 1 .. 4 : Unwrap(last.sizes)[k] > 0}) >= 2
    /\ grid.items[Unwrap(last.hit).id].wh # <<1, 1>>

\* the doubled midpoint of a slot of a w x h footprint, relative to its origin
SlotMidpoint(size, slot) ==
    CASE EdgeOfSlot(size, slot) = 0 -> <<2 * slot + 1, 0>>
      [] EdgeOfSlot(size, slot) = 1 -> <<2 * size[1], 2 * (slot - size[1]) + 1>>
      [] EdgeOfSlot(size, slot) = 2 ->
            <<2 * (size[1] - 1 - (slot - size[1] - size[2])) + 1, 2 * size[2]>>
      [] OTHER -> <<0, 2 * (size[2] - 1 - (slot - 2 * size[1] - size[2])) + 1>>

\* down for the bottom edge, right for the right, up for the top, left for the left
OutwardNormal(edge) ==
    CASE edge = 0 -> <<0, -1>>
      [] edge = 1 -> <<1, 0>>
      [] edge = 2 -> <<0, 1>>
      [] OTHER -> <<-1, 0>>

\* C22: after an advance that found a candidate (s1, p1) the agent's doubled
\* position is twice the origin of the gadget it entered plus the doubled midpoint
\* of p1's slot, and its facing is the outward normal of the edge of that slot.
ExitGeometry ==
    (last.op = "advance" /\ last.cand # None /\ ~panicked) =>
        LET rec == grid.items[Unwrap(last.hit).id]
            slot == SlotOfPort(rec.t, Unwrap(last.cand)[2])
            mid == SlotMidpoint(rec.wh, slot)
        IN  /\ rec.t.size = rec.wh
            /\ agent.double_xy = <<2 * rec.xy[1] + mid[1], 2 * rec.xy[2] + mid[2]>>
            /\ agent.direction = OutwardNormal(EdgeOfSlot(rec.wh, slot))

\* an advance has just left a gadget that is not at the origin, or not square,
\* through a slot of its top or left edge
ExitGeometryWitness ==
    /\ last.op = "advance"
    /\ last.cand # None
    /\ ~panicked
    /\ LET rec == grid.items[Unwrap(last.hit).id]
       IN  /\ (rec.xy # <<0, 0>> \/ rec.wh # <<1, 1>>)
           /\ EdgeOfSlot(rec.wh, SlotOfPort(rec.t, Unwrap(last.cand)[2])) >= 2
           /\ agent.direction \in {<<0, 1>>, <<-1, 0>>}

\* C23: an advance changes the state of no gadget but the one touching the agent's
\* edge in the facing direction, and leaves every gadget's def, slot map and size,
\* the set of records with their origins and footprints, and the cell map alone.
AdvanceFrame ==
    [][last'.op = "advance" =>
          /\ grid'.grid = grid.grid
          /\ grid'.next_idx = grid.next_idx
          /\ DOMAIN grid'.items = DOMAIN grid.items
          /\ \A i \in DOMAIN grid.items :
                /\ grid'.items[i].xy = grid.items[i].xy
                /\ grid'.items[i].wh = grid.items[i].wh
                /\ grid'.items[i].t.def = grid.items[i].t.def
                /\ grid'.items[i].t.size = grid.items[i].t.size
                /\ grid'.items[i].t.port_map = grid.items[i].t.port_map
                /\ grid'.items[i].t.state # grid.items[i].t.state =>
                      LET hit == GetItemTouchingEdge(grid, agent.double_xy, agent.direction)
                      IN  hit # None /\ Unwrap(hit).id = i
          /\ Cardinality({i \in DOMAIN grid.items :
                            grid'.items[i].t.state # grid.items[i].t.state}) <= 1]_vars

\* an advance has just changed the state of one of two gadgets and left the other
\* in another state
AdvanceFrameWitness ==
    /\ last.op = "advance"
    /\ last.cand # None
    /\ ~panicked
    /\ Cardinality(DOMAIN grid.items) = 2
    /\ grid.items[Unwrap(last.hit).id].t.state = 1
    /\ \E i \in DOMAIN grid.items : grid.items[i].t.state = 0

\* exactly one of the two coordinates is odd
OnMidpoint(double_xy) == (double_xy[1] % 2 = 1) # (double_xy[2] % 2 = 1)

\* C28: the agent's doubled position has exactly one odd coordinate in every state,
\* and after an advance that found a candidate it lies on the boundary of the
\* gadget entered, between two corners, with the facing pointing out of the gadget.
StaysOnMidpoints ==
    /\ OnMidpoint(agent.double_xy)
    /\ (last.op = "advance" /\ last.cand # None /\ ~panicked) =>
          LET rec == grid.items[Unwrap(last.hit).id]
              x == agent.double_xy[1] - 2 * rec.xy[1]
              y == agent.double_xy[2] - 2 * rec.xy[2]
              ahead == CellOf(<<agent.double_xy[1] + agent.direction[1],
                                agent.double_xy[2] + agent.direction[2]>>)
              behind == CellOf(<<agent.double_xy[1] - agent.direction[1],
                                 agent.double_xy[2] - agent.direction[2]>>)
          IN  /\ \/ (x \in {0, 2 * rec.wh[1]} /\ y > 0 /\ y < 2 * rec.wh[2])
                 \/ (y \in {0, 2 * rec.wh[2]} /\ x > 0 /\ x < 2 * rec.wh[1])
              /\ ahead \notin Footprint(rec.xy, rec.wh)
              /\ behind \in Footprint(rec.xy, rec.wh)

\* an advance has just taken the agent through the gadget that is not at the origin
StaysOnMidpointsWitness ==
    /\ last.op = "advance"
    /\ last.cand # None
    /\ ~panicked
    /\ grid.items[Unwrap(last.hit).id].xy # <<0, 0>>
    /\ agent.double_xy # last.from.double_xy

---------------------------------------------------------------------------
(* Properties of the grid *)

\* Grid::get returns None (and does not panic)
GridGetAbsent(g, position) == ~GridGetPanics(g, position) /\ GridGet(g, position) = None

\* C7: after any sequence of insert and remove calls every cell of a stored
\* record's footprint maps to that record's id, and no two stored records have
\* overlapping footprints.
GridOccupancyInvariant ==
    /\ \A i \in DOMAIN grid.items :
          \A c \in Footprint(grid.items[i].xy, grid.items[i].wh) :
              c \in DOMAIN grid.grid /\ grid.grid[c] = i
    /\ \A i, j \in DOMAIN grid.items :
          i # j => Footprint(grid.items[i].xy, grid.items[i].wh)
                     \cap Footprint(grid.items[j].xy, grid.items[j].wh) = {}

\* an insert has just evicted an item and two records are stored
GridOccupancyWitness ==
    /\ last.op = "insert"
    /\ last.gone # {}
    /\ Cardinality(DOMAIN grid.items) >= 2

\* C8: right after insert(t, xy, wh), get on every cell of the footprint returns
\* (t, xy, wh).
InsertThenGet ==
    last.op = "insert" =>
        \A c \in Footprint(last.xy, last.wh) :
            /\ ~GridGetPanics(grid, c)
            /\ GridGet(grid, c) = Some([t |-> last.t, xy |-> last.xy, wh |-> last.wh])

\* a 2x2 item has just been inserted over an existing item
InsertThenGetWitness ==
    /\ last.op = "insert"
    /\ last.wh = <<2, 2>>
    /\ last.gone # {}

\* C9: remove(c) on a cell covered by an item deletes that item's record and get is
\* then absent on every cell of its former footprint; remove on an unoccupied cell
\* changes nothing.
RemoveFreesFootprint ==
    [][last'.op = "remove" =>
         IF last'.xy \in DOMAIN grid.grid
         THEN LET r == grid.items[grid.grid[last'.xy]]
              IN  /\ grid.grid[last'.xy] \notin DOMAIN grid'.items
                  /\ \A c \in Footprint(r.xy, r.wh) : GridGetAbsent(grid', c)
         ELSE grid' = grid]_vars

\* an item of more than one cell has just been removed through a cell that is not
\* its origin
RemoveFreesFootprintWitness ==
    /\ last.op = "remove"
    /\ \E f \in last.gone : f[1] # last.xy /\ last.xy \in Footprint(f[1], f[2])
    /\ \A f \in last.gone : \A c \in Footprint(f[1], f[2]) : GridGetAbsent(grid, c)

\* C10: an insert whose footprint overlaps an existing item removes that whole
\* item (get is absent on its cells outside the new footprint), and every item
\* whose footprint does not intersect the new one stays retrievable and unchanged.
EvictionWholeItem ==
    [][last'.op = "insert" =>
         \A i \in DOMAIN grid.items :
             LET r == grid.items[i]
                 old == Footprint(r.xy, r.wh)
                 new == Footprint(last'.xy, last'.wh)
             IN  IF old \cap new # {}
                 THEN /\ i \notin DOMAIN grid'.items
                      /\ \A c \in old \ new : GridGetAbsent(grid', c)
                 ELSE /\ i \in DOMAIN grid'.items
                      /\ \A c \in old : GridGet(grid', c) = Some(r)]_vars

\* an insert has just evicted an item it covered only in part, and another item
\* stayed
EvictionWholeItemWitness ==
    /\ last.op = "insert"
    /\ \E f \in last.gone :
          Footprint(f[1], f[2]) \ Footprint(last.xy, last.wh) # {}
    /\ Cardinality(DOMAIN grid.items) >= 2

\* the ids of the stored records whose footprint covers a cell
Covering(g, c) == {i \in DOMAIN g.items : c \in Footprint(g.items[i].xy, g.items[i].wh)}

\* C11: after any sequence of insert and remove calls every entry of the cell-to-id
\* map refers to a stored id whose footprint contains the cell, no call has
\* panicked, and get(cell) is absent exactly when no stored footprint covers the
\* cell and otherwise returns the covering record.
GridGetNeverFails ==
    /\ ~panicked
    /\ \A c \in DOMAIN grid.grid :
          /\ grid.grid[c] \in DOMAIN grid.items
          /\ c \in Footprint(grid.items[grid.grid[c]].xy, grid.items[grid.grid[c]].wh)
    /\ \A c \in Cells :
          /\ ~GridGetPanics(grid, c)
          /\ IF Covering(grid, c) = {} THEN GridGet(grid, c) = None
             ELSE \E i \in Covering(grid, c) : GridGet(grid, c) = Some(grid.items[i])

\* a remove has just deleted one of several items: get is absent on the cell given
\* and returns a record on another cell
GridGetNeverFailsWitness ==
    /\ last.op = "remove"
    /\ last.gone # {}
    /\ GridGetAbsent(grid, last.xy)
    /\ \E c \in Cells : GridGet(grid, c) # None

\* C27: get_in_bounds(min_x, max_x, min_y, max_y) yields exactly the stored records
\* with x + w >= min_x, x <= max_x, y + h >= min_y and y <= max_y, each once, and
\* leaves the grid as it was.
GetInBoundsExact ==
    [][last'.op = "get_in_bounds" =>
          LET min_x == last'.bounds[1]
              max_x == last'.bounds[2]
              min_y == last'.bounds[3]
              max_y == last'.bounds[4]
              matching == {r \in Records(grid) :
                              /\ r.xy[1] + r.wh[1] >= min_x
                              /\ r.xy[1] <= max_x
                              /\ r.xy[2] + r.wh[2] >= min_y
                              /\ r.xy[2] <= max_y}
          IN  /\ {last'.result[k] : k \in DOMAIN last'.result} = matching
              /\ Len(last'.result) = Cardinality(matching)
              /\ grid' = grid]_vars

\* a query has just yielded an item that only touches the border of the query
\* rectangle (its right edge is at min_x) and left another item out
GetInBoundsExactWitness ==
    /\ last.op = "get_in_bounds"
    /\ Len(last.result) = 1
    /\ Cardinality(DOMAIN grid.items) = 2
    /\ last.result[1].xy[1] + last.result[1].wh[1] = last.bounds[1]

---------------------------------------------------------------------------
(* Properties of the gadget's editing operations *)

\* C12: rotate_ports(n) followed by rotate_ports(-n) gives back the gadget it
\* started from, for every n, and rotate_ports(len) with len the length of the slot
\* map changes nothing.
RotationInverse ==
    [][last'.op = "rotate_ports" =>
          /\ ~panicked'
          /\ ~RotatePortsPanics(Unwrap(gadget_tile'))
          /\ RotatePorts(Unwrap(gadget_tile'), -last'.n) = Tile
          /\ (last'.n = Len(Tile.port_map) => gadget_tile' = gadget_tile)]_vars

\* rotate_ports has just moved the ports of a gadget clockwise by a number of
\* spaces that is not a multiple of the length of its slot map
RotationInverseWitness ==
    /\ last.op = "rotate_ports"
    /\ last.n < 0
    /\ gadget_tile # None
    /\ last.n % Len(Tile.port_map) # 0
    /\ RotatePorts(Tile, -last.n).port_map # Tile.port_map

\* C13: rotate(k) makes k mod 4 quarter turns, each rotate_ports(h) followed by the
\* swap of (w, h); four quarter turns give back the size and the slot map, and so
\* do the turns that complete rotate(k) to four.
RotationIdentity ==
    [][last'.op = "rotate" =>
          /\ gadget_tile' = Some(Turns(Tile, last'.n % 4))
          /\ Rotate(Rotate(Rotate(Rotate(Tile, 1), 1), 1), 1) = Tile
          /\ Rotate(Unwrap(gadget_tile'), 4 - (last'.n % 4)) = Tile
          /\ ~panicked']_vars

\* rotate(1) has just turned a gadget that is not square and moved its ports
RotationIdentityWitness ==
    /\ last.op = "rotate"
    /\ last.n = 1
    /\ gadget_tile # None
    /\ Tile.size = <<1, 2>>
    /\ Rotate(Tile, 3).size = <<2, 1>>
    /\ Rotate(Tile, 3).port_map # Tile.port_map

\* each port is held by at most one slot
Injective(port_map) ==
    \A i, j \in DOMAIN port_map :
        (port_map[i] # None /\ port_map[i] = port_map[j]) => i = j

\* the ports the slots hold
MappedPorts(port_map) == UNION {port_map[i] : i \in DOMAIN port_map}

\* the slot map of h has the length and the ports of that of g, each port once
SlotMapPreserved(g, h) ==
    /\ Len(h.port_map) = Len(g.port_map)
    /\ MappedPorts(h.port_map) = MappedPorts(g.port_map)
    /\ Injective(h.port_map)

\* C14: a step (rotate_ports, flip_ports, cycle_state, set_state, rotate, the
\* placement, Agent::advance) taken on a gadget whose slot map holds each port at
\* most once leaves the slot map with the same length, the same set of mapped ports
\* and each port at most once.
SlotMapInjectivity ==
    [][/\ (gadget_tile # None /\ gadget_tile' # None /\ Injective(Tile.port_map)) =>
            SlotMapPreserved(Tile, Unwrap(gadget_tile'))
       /\ \A i \in DOMAIN grid'.items :
            IF i \in DOMAIN grid.items
            THEN Injective(grid.items[i].t.port_map) =>
                    SlotMapPreserved(grid.items[i].t, grid'.items[i].t)
            ELSE Injective(Tile.port_map) => SlotMapPreserved(Tile, grid'.items[i].t)]_vars

\* an advance has just taken a gadget with an injective slot map, edited before it
\* was placed, to state 1 and the agent to another slot
SlotMapInjectivityWitness ==
    /\ last.op = "advance"
    /\ 0 \in DOMAIN grid.items
    /\ LET g == grid.items[0].t
       IN  /\ Injective(g.port_map)
           /\ Cardinality(MappedPorts(g.port_map)) = 2
           /\ g.port_map # BasePortMap(g.def, g.size)
           /\ g.port_map # FlipPorts(GadgetNew(g.def, g.size, BasePortMap(g.def, g.size), 0)).port_map
           /\ g.state = 1
           /\ agent.direction = OutwardDir(g.size, PortMapInv(g)[1])

\* C17: GadgetDef::new(num_states, num_ports) yields a def with those counts and no
\* traversal, targets_from_state_port of it is empty for every (s, p), and no
\* advance into a gadget of such a def moves the agent or changes the grid.
NopeDefInert ==
    /\ [](last.op = "new" /\ last.built = "new" =>
            /\ Tile.def = [num_ports |-> last.num_ports, num_states |-> last.num_states,
                           traversals |-> {}]
            /\ \A sp \in StateIds \X PortIds : \A iter \in Iterations(Tile.def, sp) :
                  TargetsFromStatePort(Tile.def, sp, iter) = <<>>)
    /\ [][(last'.op = "advance" /\ last'.built = "new") =>
            /\ agent'.double_xy = agent.double_xy
            /\ grid' = grid
            /\ ~panicked']_vars

\* a forward advance has just met a mapped port of a gadget whose def was built by
\* GadgetDef::new with different counts
NopeDefInertWitness ==
    /\ last.op = "advance"
    /\ last.built = "new"
    /\ last.num_states # last.num_ports
    /\ last.input = agent.direction
    /\ TouchedDef(agent, grid) # None

\* C24: after rotate_ports(n) the content that was at slot j is at slot
\* (j + n) mod len, for every j, and rotate_ports(n) followed by rotate_ports(b) is
\* rotate_ports(n + b).
RotationDirection ==
    [][last'.op = "rotate_ports" =>
          LET len == Len(Tile.port_map)
              n == last'.n
              after == Unwrap(gadget_tile')
          IN  /\ Len(after.port_map) = len
              /\ \A j \in 0 .. (len - 1) :
                    after.port_map[((j + n) % len) + 1] = Tile.port_map[j + 1]
              /\ \A b \in (-MaxSpaces) .. MaxSpaces :
                    RotatePorts(after, b) = RotatePorts(Tile, n + b)
              /\ after.size = Tile.size /\ after.state = Tile.state]_vars

\* rotate_ports(n) with n positive has just moved port 0 from slot 0 to slot n,
\* which is not on the bottom edge
RotationDirectionWitness ==
    /\ last.op = "rotate_ports"
    /\ last.n > 0
    /\ gadget_tile # None
    /\ last.n < Len(Tile.port_map)
    /\ Tile.port_map[last.n + 1] = Some(0)
    /\ Tile.port_map[1] = None
    /\ SlotEdge(Tile.size, last.n) # 0

\* cycle_state called n times
RECURSIVE CycleStateTimes(_, _)
CycleStateTimes(gadget, n) ==
    IF n = 0 THEN gadget ELSE CycleStateTimes(CycleState(gadget), n - 1)

\* C25: cycle_state on a gadget whose state is in [0, num_states) sets the state to
\* (state + 1) mod num_states, which is in that range and is 0 after num_states - 1;
\* num_states calls give back the state; nothing else of the gadget changes.
CycleStateWraps ==
    [][(last'.op = "cycle_state" /\ Tile.state < Tile.def.num_states) =>
          LET after == Unwrap(gadget_tile')
          IN  /\ ~panicked'
              /\ after.state = (Tile.state + 1) % Tile.def.num_states
              /\ after.state \in 0 .. (Tile.def.num_states - 1)
              /\ Tile.state = Tile.def.num_states - 1 => after.state = 0
              /\ CycleStateTimes(Tile, Tile.def.num_states) = Tile
              /\ after = [Tile EXCEPT !.state = after.state]
              /\ UNCHANGED <<grid, agent>>]_vars

\* cycle_state has just taken a gadget of a def with two states from state 1 to 0
CycleStateWrapsWitness ==
    /\ last.op = "cycle_state"
    /\ gadget_tile # None
    /\ Tile.def.num_states = 2
    /\ Tile.state = 0
    /\ ~panicked

\* C26: flip_ports moves the content of slot j to slot len - 1 - j, for every j,
\* leaves the size and the state alone, and a second flip_ports gives back the slot
\* map.
FlipReverses ==
    [][last'.op = "flip_ports" =>
          LET len == Len(Tile.port_map)
              after == Unwrap(gadget_tile')
          IN  /\ Len(after.port_map) = len
              /\ \A j \in 0 .. (len - 1) :
                    after.port_map[(len - 1 - j) + 1] = Tile.port_map[j + 1]
              /\ after.size = Tile.size
              /\ after.state = Tile.state
              /\ after.def = Tile.def
              /\ FlipPorts(after) = Tile
              /\ ~panicked']_vars

\* flip_ports has just moved the ports of a gadget of six slots, one of them from
\* a slot inside the slot map
FlipReversesWitness ==
    /\ last.op = "flip_ports"
    /\ gadget_tile # None
    /\ Len(Tile.port_map) = 6
    /\ FlipPorts(Tile).port_map # Tile.port_map
    /\ \E j \in 2 .. 5 : Tile.port_map[j] # None /\ Tile.port_map[7 - j] = None

\* C18 (as claimed): every def the constructors yield has num_states >= 1 and
\* cycle_state never divides by zero.
ConstructionRejectsNoStates ==
    /\ gadget_tile # None => Tile.def.num_states >= 1
    /\ ~(last.op = "cycle_state" /\ panicked)

---------------------------------------------------------------------------
(* Properties of GadgetDef *)

\* the elements of a sequence
Range(seq) == {seq[i] : i \in DOMAIN seq}

\* C15: for the def from_traversals built from the supplied traversals,
\* targets_from_state_port((s, p)) holds exactly the destinations of the supplied
\* traversals whose source is (s, p), each once, in whatever order the set is
\* visited, and the pairs ((s, p), t) over all (s, p) are the supplied set.
TraversalRoundTrip ==
    LET supplied == Range(last.supplied)
        Targets(sp, iter) == TargetsFromStatePort(gadget_def, sp, iter)
    IN  /\ \A sp \in DefStates \X DefPorts : \A iter \in Iterations(gadget_def, sp) :
              /\ Range(Targets(sp, iter)) = {t[2] : t \in {u \in supplied : u[1] = sp}}
              /\ Len(Targets(sp, iter)) = Cardinality(Range(Targets(sp, iter)))
        /\ UNION {UNION {{<<sp, t>> : t \in Range(Targets(sp, iter))} :
                             iter \in Iterations(gadget_def, sp)} :
                     sp \in DefStates \X DefPorts} = supplied
        /\ last.op = "targets_from_state_port" =>
              Range(last.targets) = {t[2] : t \in {u \in supplied : u[1] = last.sp}}

\* targets_from_state_port has just yielded two destinations of a def built from
\* a sequence that repeats a traversal and holds one of another source
TraversalRoundTripWitness ==
    /\ last.op = "targets_from_state_port"
    /\ Len(last.targets) = 2
    /\ Len(last.supplied) > Cardinality(gadget_def.traversals)
    /\ \E t \in gadget_def.traversals : t[1] # last.sp

\* C16: port_traversals_in_state(s) is the set of the (p0, p1) for which some
\* supplied traversal leads from (s, p0) to (s1, p1), whatever s1 is; (p1, p0) is
\* in it only if it is such a pair itself.
ProjectionLaw ==
    last.op = "port_traversals_in_state" =>
        /\ last.pairs = {pp \in DefPorts \X DefPorts :
                            \E s1 \in DefStates :
                                <<<<last.state, pp[1]>>, <<s1, pp[2]>>>> \in Range(last.supplied)}
        /\ \A pp \in last.pairs :
              <<pp[2], pp[1]>> \in last.pairs =>
                  \E s1 \in DefStates :
                      <<<<last.state, pp[2]>>, <<s1, pp[1]>>>> \in Range(last.supplied)

\* port_traversals_in_state has just yielded a pair without its reverse, of a def
\* that holds a traversal leaving another state
ProjectionLawWitness ==
    /\ last.op = "port_traversals_in_state"
    /\ \E pp \in last.pairs : pp[1] # pp[2] /\ <<pp[2], pp[1]>> \notin last.pairs
    /\ \E t \in gadget_def.traversals : t[1][1] # last.state

---------------------------------------------------------------------------
(* Properties of App::set_mode and the mode-changing events *)

MainStack == Unwrap(app.undo_stacks[1])
PlayStack == Unwrap(app.undo_stacks[2])

AgentLifecycle ==
    /\ [](/\ ~panicked
          /\ app.agent # None => app.mode \in {"AgentPlace", "Play"}
          /\ app.mode = "Play" => app.agent # None)
    /\ [][app'.mode # app.mode =>
            /\ app'.mode = "Play" => (last'.op = "agent_place" /\ app.agent # None)
            /\ app'.mode # "Select" => app'.selection = {}
            /\ app'.mode # "TilePaint" =>
                  (app'.gadget_selection = None /\ gadget_tile' = None)]_vars

\* play has been entered by an AgentPlace event from AgentPlace, with the agent set
\* where the event says
AgentLifecycleWitness ==
    /\ last.op = "agent_place"
    /\ last.mode = "AgentPlace"
    /\ app.mode = "Play"
    /\ app.agent # None
    /\ Unwrap(app.agent).double_xy = <<2, 1>>

\* C31: a TilePaint event at xy with the nope gadget selected (1 state, 0 ports,
\* size (1, 1)) removes the item covering xy with its whole footprint and inserts
\* nothing; with any other gadget selected it inserts that gadget at xy, evicting
\* the items its footprint overlaps and keeping the others; with no gadget selected
\* the grid is unchanged. The selected gadget stays selected.
EraserTool ==
    [][last'.op = "tile_paint" =>
          /\ gadget_tile' = gadget_tile
          /\ ~panicked'
          /\ IF gadget_tile = None THEN grid' = grid
             ELSE IF Tile.def.num_states = 1 /\ Tile.def.num_ports = 0 /\ Tile.size = <<1, 1>>
             THEN /\ DOMAIN grid'.items = DOMAIN grid.items \ Covering(grid, last'.xy)
                  /\ \A i \in DOMAIN grid'.items : grid'.items[i] = grid.items[i]
                  /\ \A c \in Cells :
                        IF \E i \in Covering(grid, last'.xy) :
                               c \in Footprint(grid.items[i].xy, grid.items[i].wh)
                        THEN GridGetAbsent(grid', c)
                        ELSE GridGet(grid', c) = GridGet(grid, c)
             ELSE LET new == Footprint(last'.xy, Tile.size)
                  IN  /\ \A c \in new :
                            GridGet(grid', c)
                               = Some([t |-> Tile, xy |-> last'.xy, wh |-> Tile.size])
                      /\ \A i \in DOMAIN grid.items :
                            LET old == Footprint(grid.items[i].xy, grid.items[i].wh)
                            IN  IF old \cap new # {}
                                THEN /\ i \notin DOMAIN grid'.items
                                     /\ \A c \in old \ new : GridGetAbsent(grid', c)
                                ELSE /\ i \in DOMAIN grid'.items
                                     /\ \A c \in old : GridGet(grid', c) = Some(grid.items[i])
                      /\ Cardinality(DOMAIN grid'.items \ DOMAIN grid.items) = 1]_vars

\* the eraser has just removed a two-cell item through the cell that is not its
\* origin: both of its cells are free, and the other item stays
EraserToolWitness ==
    /\ last.op = "tile_paint"
    /\ gadget_tile # None
    /\ Tile.def.num_states = 1 /\ Tile.def.num_ports = 0 /\ Tile.size = <<1, 1>>
    /\ last.xy = <<0, 1>>
    /\ last.gone = {<<<<0, 0>>, <<1, 2>>>>}
    /\ GridGetAbsent(grid, <<0, 0>>)
    /\ GridGetAbsent(grid, <<0, 1>>)
    /\ Cardinality(DOMAIN grid.items) = 1

====
